---- MODULE Spec2Model ----
(***************************************************************************)
(* Model of osm_industrial_filter.py: the OSMIndustrialFilter class        *)
(* (fetch_and_filter, export_geojson and the pure helpers they call) and   *)
(* the command line driver main().                                         *)
(*                                                                         *)
(* Numbers.  Areas are integers counted in thousandths of a square metre,  *)
(* so that round(area, 2) is a real rounding.  Coordinates are integer     *)
(* (lon, lat) pairs.  The reprojection done by pyproj is a library call;   *)
(* it is modelled as a uniform scaling of the grid (HalfCellArea), which   *)
(* keeps the planar shoelace area the code reads from shapely.             *)
(***************************************************************************)
EXTENDS Integers, Sequences, FiniteSets, TLC

\* ---------------------------------------------------------------- bounds
MaxWays == 2
MaxRelations == 1
MaxLen == 7
MaxCoords == 3

\* ------------------------------------------------------ program constants
MinRingPoints == 3
UtmNorthBase == 32600
UtmSouthBase == 32700
UtmZoneWidth == 6
LonOffset == 180
SqmPerHectare == 10000
BboxArity == 4

\* value standing for Python's None
None == "None"
\* the except branch of fetch_and_filter's query: no result object
QueryError == [status |-> "error"]
\* before the first query
NoQuery == [status |-> "none"]
\* no output file on disk
NoFile == [type |-> "NoFile"]
DefaultFilename == "large_industrial_areas.geojson"

\* Property values are ints or strings in Python; both are wrapped so that
\* any two values can be compared.
Num(n) == [s |-> "", n |-> n]
Str(s) == [s |-> s, n |-> 0]

Abs(x) == IF x < 0 THEN -x ELSE x

\* ------------------------------------------------------------- geometry
\* Area of half a grid cell after projection, in thousandths of a sqm.
HalfCellArea == 2500125

\* Twice the signed planar area of the ring g (cyclic shoelace sum), the
\* quantity shapely's Polygon.area is computed from.
RECURSIVE ShoelaceFrom(_, _)
ShoelaceFrom(g, i) ==
    IF i > Len(g) THEN 0
    ELSE LET j == IF i = Len(g) THEN 1 ELSE i + 1
         IN  (g[i][1] * g[j][2] - g[j][1] * g[i][2]) + ShoelaceFrom(g, i + 1)

PlanarArea(g) == Abs(ShoelaceFrom(g, 1)) * HalfCellArea

\* int(x / d) of Python for an integer numerator: truncation towards zero.
TruncDiv(x, d) == IF x >= 0 THEN x \div d ELSE -((-x) \div d)

utm_zone_of(lon) == TruncDiv(lon + LonOffset, UtmZoneWidth) + 1

utm_epsg_of(lon, lat) ==
    IF lat >= 0 THEN UtmNorthBase + utm_zone_of(lon)
    ELSE UtmSouthBase + utm_zone_of(lon)

calculate_area(geometry) ==
    IF Len(geometry) < MinRingPoints THEN 0 ELSE PlanarArea(geometry)

\* round(x / d, 2) of Python, x in thousandths and the result in hundredths
\* of the unit: round half to even.
RoundDiv(x, d) ==
    LET q == x \div d
        r == x % d
    IN  IF 2 * r < d THEN q
        ELSE IF 2 * r > d THEN q + 1
        ELSE IF q % 2 = 0 THEN q ELSE q + 1

RoundSqm(area) == RoundDiv(area, 10)
RoundHectares(area) == RoundDiv(area, 10 * SqmPerHectare)

\* ------------------------------------------------------------- elements
HasNodes(e) == "nodes" \in DOMAIN e

way_to_coordinates(way) == way.nodes

\* The rings of the members with the given role that carry nodes and have
\* at least three of them, in member order.
RingsWithRole(members, role) ==
    LET keep(m) == m.role = role /\ HasNodes(m) /\ Len(m.nodes) >= MinRingPoints
        sel == SelectSeq(members, keep)
    IN  [i \in 1..Len(sel) |-> sel[i].nodes]

relation_to_coordinates(relation) ==
    RingsWithRole(relation.members, "outer") \o RingsWithRole(relation.members, "inner")

\* max(coord_rings, key=len): the first ring of maximal length.
LargestRing(coord_rings) ==
    LET i == CHOOSE k \in 1..Len(coord_rings) :
                 /\ \A j \in 1..Len(coord_rings) : Len(coord_rings[j]) <= Len(coord_rings[k])
                 /\ \A j \in 1..(k - 1) : Len(coord_rings[j]) < Len(coord_rings[k])
    IN  coord_rings[i]

\* -------------------------------------------------------- feature build
BaseKeys == {"osm_id", "osm_type", "landuse", "area_sqm", "area_hectares"}

\* faulty variant: the first point is appended without the test
CloseRingAlways(coordinates) == Append(coordinates, coordinates[1])

\* lines 145-146: the list is closed in place when its ends differ
CloseRing(coordinates) ==
    IF coordinates[1] # coordinates[Len(coordinates)]
    THEN Append(coordinates, coordinates[1])
    ELSE coordinates

BaseProperties(element, area) ==
    [k \in BaseKeys |->
        CASE k = "osm_id" -> Num(element.id)
          [] k = "osm_type" -> Str(IF HasNodes(element) THEN "way" ELSE "relation")
          [] k = "landuse" -> Str("industrial")
          [] k = "area_sqm" -> Num(RoundSqm(area))
          [] OTHER -> Num(RoundHectares(area))]

\* faulty variant: dict.update semantics, a tag replaces a base key
MergeTagsOverriding(properties, tags) ==
    [k \in DOMAIN properties \cup DOMAIN tags |->
        IF k \in DOMAIN tags THEN Str(tags[k]) ELSE properties[k]]

\* lines 156-158: a tag is copied only under a key not yet in properties
MergeTags(properties, tags) ==
    [k \in DOMAIN properties \cup DOMAIN tags |->
        IF k \in DOMAIN properties THEN properties[k] ELSE Str(tags[k])]

create_geojson_feature(element, coordinates, area) ==
    [type |-> "Feature",
     properties |-> MergeTags(BaseProperties(element, area), element.tags),
     geometry |-> [type |-> "Polygon", coordinates |-> <<CloseRing(coordinates)>>]]

\* -------------------------------------------------- fetch_and_filter loops
\* What the body of one loop iteration does: "kept" with a feature,
\* "skipped" (continue, or too small), or "error" (an exception reached the
\* except clause).  element.raises names the call that raises for this
\* element, "none" when no call does.
Kept(f) == [outcome |-> "kept", feature |-> f]
Skipped == [outcome |-> "skipped"]
Raised == [outcome |-> "error"]

\* faulty variant: strict comparison with the threshold
FilterAndBuildStrict(element, ring, min_area) ==
    IF element.raises = "area" THEN Raised
    ELSE LET area == calculate_area(ring)
         IN  IF area > min_area
             THEN IF element.raises = "build" THEN Raised
                  ELSE Kept(create_geojson_feature(element, ring, area))
             ELSE Skipped

\* lines 195-203 and 219-227: area, threshold test, feature build
FilterAndBuild(element, ring, min_area) ==
    IF element.raises = "area" THEN Raised
    ELSE LET area == calculate_area(ring)
         IN  IF area >= min_area
             THEN IF element.raises = "build" THEN Raised
                  ELSE Kept(create_geojson_feature(element, ring, area))
             ELSE Skipped

\* faulty variant: the length test of line 192 left out
ProcessWayNoLengthCheck(way, min_area) ==
    IF way.raises = "extract" THEN Raised
    ELSE FilterAndBuild(way, way_to_coordinates(way), min_area)

\* lines 190-203
ProcessWay(way, min_area) ==
    IF way.raises = "extract" THEN Raised
    ELSE LET coordinates == way_to_coordinates(way)
         IN  IF Len(coordinates) < MinRingPoints THEN Skipped
             ELSE FilterAndBuild(way, coordinates, min_area)

\* lines 210-227
ProcessRelation(relation, min_area) ==
    IF relation.raises = "extract" THEN Raised
    ELSE LET coord_rings == relation_to_coordinates(relation)
         IN  IF coord_rings = <<>> THEN Skipped
             ELSE LET largest_ring == LargestRing(coord_rings)
                  IN  IF Len(largest_ring) < MinRingPoints THEN Skipped
                      ELSE FilterAndBuild(relation, largest_ring, min_area)

ProcessElement(element, min_area) ==
    IF HasNodes(element) THEN ProcessWay(element, min_area)
    ELSE ProcessRelation(element, min_area)

\* faulty variant: an error throws away what the batch has collected
LoopStepAbortingOnError(features, element, min_area) ==
    LET r == ProcessElement(element, min_area)
    IN  IF r.outcome = "kept" THEN Append(features, r.feature)
        ELSE IF r.outcome = "error" THEN <<>>
        ELSE features

\* One iteration of either loop: the list `features` after it.  The except
\* clause only prints, so an error leaves the list as it was.
LoopStep(features, element, min_area) ==
    LET r == ProcessElement(element, min_area)
    IN  IF r.outcome = "kept" THEN Append(features, r.feature) ELSE features

RECURSIVE RunLoop(_, _, _)
RunLoop(features, elements, min_area) ==
    IF elements = <<>> THEN features
    ELSE RunLoop(LoopStep(features, Head(elements), min_area), Tail(elements), min_area)

\* lines 184-234 after a successful query: ways first, then relations
FilterResult(result, min_area) ==
    RunLoop(RunLoop(<<>>, result.ways, min_area), result.relations, min_area)

\* ------------------------------------------------------ optional values
NoneV == [some |-> FALSE]
Some(v) == [some |-> TRUE, v |-> v]
\* truth value of an optional string / of an optional tuple in Python
TruthyText(o) == o.some /\ o.v # ""
TruthyChars(o) == o.some /\ o.v # <<>>
TruthyTuple(o) == o.some /\ o.v # <<>>

\* ---------------------------------------------------------------- inputs
Stages == {"none", "extract", "area", "build"}

\* (lon, lat) corner points the node lists are cut from
Corners == << <<4, 52>>, <<6, 52>>, <<7, 53>>, <<6, 54>>, <<4, 54>> >>
Poly(n) == SubSeq(Corners, 1, n)

ElementTags == [landuse |-> "industrial", name |-> "plant"]

\* A way below the ring minimum, a quadrilateral, and a triangle with every
\* raising stage.
WayShapes ==
    {[nodes |-> Poly(n), raises |-> "none"] : n \in {MinRingPoints - 1, MinRingPoints + 1}}
        \cup {[nodes |-> Poly(MinRingPoints), raises |-> s] : s \in Stages}

Member(role, n) == [role |-> role, nodes |-> Poly(n)]
\* a member that is a node or a relation: it has no `nodes` attribute
BareMember(role) == [role |-> role]

RelationShapes ==
    {[members |-> << Member("outer", MinRingPoints) >>, raises |-> "none"],
     [members |-> << Member("outer", MinRingPoints) >>, raises |-> "area"],
     [members |-> << Member("inner", MinRingPoints) >>, raises |-> "none"],
     [members |-> << Member("outer", MinRingPoints), Member("inner", MinRingPoints + 1) >>,
      raises |-> "none"],
     [members |-> << Member("outer", MinRingPoints - 1) >>, raises |-> "none"],
     [members |-> << BareMember("outer"), Member("label", MinRingPoints) >>, raises |-> "none"]}

SeqsUpTo(S, n) == UNION {[1..k -> S] : k \in 0..n}

MkWay(i, shape) ==
    [id |-> i, nodes |-> shape.nodes, tags |-> ElementTags, raises |-> shape.raises]
MkRelation(i, shape) ==
    [id |-> i, members |-> shape.members, tags |-> ElementTags, raises |-> shape.raises]

\* What a successful query can answer: elements numbered by position.
Results ==
    {[status |-> "ok",
      ways |-> [i \in DOMAIN ws |-> MkWay(i, ws[i])],
      relations |-> [i \in DOMAIN rs |-> MkRelation(i, rs[i])]] :
        ws \in SeqsUpTo(WayShapes, MaxWays), rs \in SeqsUpTo(RelationShapes, MaxRelations)}

EmptyResult == [status |-> "ok", ways |-> <<>>, relations |-> <<>>]

TriangleArea == calculate_area(Poly(MinRingPoints))
MinAreas == {-1000, 0, TriangleArea, TriangleArea + 1}

\* ----------------------------------------------------------------- state
VARIABLES
    min_area_sqm,       \* self.min_area_sqm
    bbox,               \* self.bbox
    country,            \* self.country
    filtered_features,  \* self.filtered_features
    osm,                \* what the Overpass server holds for the query
    result,             \* outcome of the last api.query: a result or QueryError
    returned,           \* value returned by the last fetch_and_filter()
    export_ret,         \* value returned by the last export_geojson()
    file,               \* content of the output file, NoFile when absent
    last_call,          \* the method that ran last
    cli,                \* main(): arguments, position, exit code
    utm,                \* one UTM zone selection of calculate_area
    fb                  \* one use of create_geojson_feature

vars == <<min_area_sqm, bbox, country, filtered_features, osm, result, returned,
          export_ret, file, last_call, cli, utm, fb>>

self_vars == <<min_area_sqm, bbox, country, filtered_features>>
io_vars == <<osm, result, returned, export_ret, file, last_call>>

Idle == [pc |-> "idle"]

\* ------------------------------------------------- OSMIndustrialFilter
\* faulty variant: the assignment of line 233 left out
StoreOmitted(features) == [stored |-> <<>>, ret |-> features]

\* lines 233-234
StoreAndReturn(features) == [stored |-> features, ret |-> features]

\* lines 177-182: the query raised; nothing is stored
QueryFailed(stored) == [stored |-> stored, ret |-> <<>>]

\* fetch_and_filter() given the outcome of api.query
fetch_and_filter(outcome) ==
    LET r == IF outcome.status = "error" THEN QueryFailed(filtered_features)
             ELSE StoreAndReturn(FilterResult(outcome, min_area_sqm))
    IN  /\ result' = outcome
        /\ filtered_features' = r.stored
        /\ returned' = r.ret
        /\ last_call' = "fetch_and_filter"
        /\ UNCHANGED <<min_area_sqm, bbox, country, export_ret, file>>

\* lines 241-262: the collection written to the file
FeatureCollection ==
    [type |-> "FeatureCollection",
     features |-> filtered_features,
     properties |-> [count |-> Len(filtered_features),
                     min_area_sqm |-> min_area_sqm,
                     country |-> IF TruthyText(country) THEN country ELSE NoneV,
                     bounding_box |-> IF TruthyTuple(bbox) THEN bbox ELSE NoneV]]

\* faulty variant: the guard of line 237 left out
ExportAlwaysWrites(filename) == [ret |-> filename, file |-> FeatureCollection]

\* lines 237-239 and 264-269: return value and file content after the call
Export(filename) ==
    IF filtered_features = <<>> THEN [ret |-> "", file |-> file]
    ELSE [ret |-> filename, file |-> FeatureCollection]

export_geojson(filename) ==
    /\ export_ret' = Export(filename).ret
    /\ file' = Export(filename).file
    /\ last_call' = "export_geojson"
    /\ UNCHANGED <<min_area_sqm, bbox, country, filtered_features, result, returned>>

\* ------------------------------------------- Spec: one filter instance
Init ==
    /\ min_area_sqm \in MinAreas
    /\ bbox = NoneV
    /\ country = NoneV
    /\ filtered_features = <<>>
    /\ osm \in Results
    /\ result = NoQuery
    /\ returned = <<>>
    /\ export_ret = None
    /\ file = NoFile
    /\ last_call = "__init__"
    /\ cli = Idle
    /\ utm = Idle
    /\ fb = Idle

FetchQueryOk ==
    /\ fetch_and_filter(osm)
    /\ UNCHANGED <<osm, cli, utm, fb>>

FetchQueryFails ==
    /\ fetch_and_filter(QueryError)
    /\ UNCHANGED <<osm, cli, utm, fb>>

ExportGeojson ==
    /\ export_geojson(DefaultFilename)
    /\ UNCHANGED <<osm, cli, utm, fb>>

\* Between two calls the mapped objects may be deleted on the server: the
\* next successful query answers with no element.
OsmCleared ==
    /\ osm # EmptyResult
    /\ osm' = EmptyResult
    /\ UNCHANGED <<self_vars, result, returned, export_ret, file, last_call, cli, utm, fb>>

Next == FetchQueryOk \/ FetchQueryFails \/ ExportGeojson \/ OsmCleared

Spec == Init /\ [][Next]_vars

\* ---------------------------------------------------- properties of Spec
QueryOk == result.status = "ok"
ElementsOf(r) == {r.ways[i] : i \in DOMAIN r.ways} \cup {r.relations[i] : i \in DOMAIN r.relations}
KindOf(e) == IF HasNodes(e) THEN "way" ELSE "relation"

\* the list holds a feature made for element e
HasFeature(features, e) ==
    \E i \in DOMAIN features :
        /\ features[i].properties["osm_id"] = Num(e.id)
        /\ features[i].properties["osm_type"] = Str(KindOf(e))

\* The polygon the code measures: a way's nodes, a relation's largest ring
\* (no points when the relation yields no ring).
MeasuredRing(e) ==
    IF HasNodes(e) THEN e.nodes
    ELSE IF relation_to_coordinates(e) = <<>> THEN <<>>
    ELSE LargestRing(relation_to_coordinates(e))

ComputedArea(e) == calculate_area(MeasuredRing(e))

\* C2 as stated: every way and relation of the answer has a feature in the
\* returned list if and only if its computed area is >= min_area_sqm.
C2_AreaDecidesAlone ==
    QueryOk => \A e \in ElementsOf(result) :
        HasFeature(returned, e) <=> ComputedArea(e) >= min_area_sqm

\* C2 amended: an element has a feature in the returned list if and only if
\* its measured polygon has at least three points, none of its processing
\* calls raises, and its computed area is >= min_area_sqm (equality keeps it).
C2_RetainedIffLargeEnough ==
    QueryOk => \A e \in ElementsOf(result) :
        HasFeature(returned, e) <=>
            /\ Len(MeasuredRing(e)) >= MinRingPoints
            /\ e.raises = "none"
            /\ ComputedArea(e) >= min_area_sqm

C2_Witness ==
    /\ QueryOk
    /\ \E e \in ElementsOf(result) :
           HasFeature(returned, e) /\ ComputedArea(e) = min_area_sqm /\ min_area_sqm > 0

\* C3: calculate_area is 0 below three points, and no feature is returned
\* for a way with fewer than three nodes or for a relation none of whose
\* member rings reaches three points, whatever min_area_sqm is.
C3_NoFeatureBelowThreePoints ==
    QueryOk => \A e \in ElementsOf(result) :
        LET short == IF HasNodes(e) THEN Len(e.nodes) < MinRingPoints
                     ELSE \A i \in DOMAIN e.members :
                              HasNodes(e.members[i]) =>
                                  Len(e.members[i].nodes) < MinRingPoints
        IN  /\ short => ~HasFeature(returned, e)
            /\ \A n \in 0..Len(MeasuredRing(e)) :
                   n < MinRingPoints => calculate_area(SubSeq(MeasuredRing(e), 1, n)) = 0

C3_Witness ==
    /\ QueryOk
    /\ min_area_sqm <= 0
    /\ returned # <<>>
    /\ \E e \in ElementsOf(result) :
           HasNodes(e) /\ Len(e.nodes) < MinRingPoints /\ ~HasFeature(returned, e)

\* C4 as stated: a relation all of whose members that carry geometry have
\* role "inner" gets no feature.
C4_InnerOnlyYieldsNoFeature ==
    QueryOk => \A i \in DOMAIN result.relations :
        LET members == result.relations[i].members
        IN  (\A k \in DOMAIN members : HasNodes(members[k]) => members[k].role = "inner")
                => ~HasFeature(returned, result.relations[i])

\* the elements of the sequence whose processing raises, removed
WithoutFailing(elements, min_area) ==
    LET ok(e) == ProcessElement(e, min_area).outcome # "error"
    IN  SelectSeq(elements, ok)

\* C5: the returned list is the list the same answer would give with every
\* element whose processing raises taken out of it.
C5_FailingElementIsSkipped ==
    QueryOk =>
        returned = FilterResult([status |-> "ok",
                                 ways |-> WithoutFailing(result.ways, min_area_sqm),
                                 relations |-> WithoutFailing(result.relations, min_area_sqm)],
                                min_area_sqm)

C5_Witness ==
    /\ QueryOk
    /\ Len(result.ways) >= 2
    /\ ProcessElement(result.ways[1], min_area_sqm).outcome = "error"
    /\ HasFeature(returned, result.ways[2])

\* C6: an export_geojson() call on an empty stored list returns "" and
\* leaves the file as it was; on a non-empty list it writes the collection
\* and returns the filename.
C6_ExportEmptyIsNoOp ==
    [][last_call' = "export_geojson" =>
          IF filtered_features = <<>>
          THEN export_ret' = "" /\ file' = file
          ELSE /\ export_ret' = DefaultFilename
               /\ file'.type = "FeatureCollection"
               /\ file'.features = filtered_features]_vars

C6_Witness ==
    /\ last_call = "export_geojson"
    /\ QueryOk
    /\ returned = <<>>
    /\ export_ret = ""
    /\ file = NoFile

\* C10 as stated: the stored list equals the list the most recent
\* fetch_and_filter() returned, and an export after a failed query
\* returns "".
C10_StoredEqualsLastReturned ==
    /\ filtered_features = returned
    /\ (result.status = "error" /\ last_call = "export_geojson") => export_ret = ""

\* C10 amended: a call whose query succeeds stores the list it returns; a
\* call whose query fails returns the empty list and leaves the stored list
\* as it was.
C10_StoredEqualsLastSuccessful ==
    /\ [](QueryOk => filtered_features = returned)
    /\ [][last_call' = "fetch_and_filter" =>
            IF result'.status = "error"
            THEN filtered_features' = filtered_features /\ returned' = <<>>
            ELSE filtered_features' = returned']_vars

C10_Witness ==
    /\ result.status = "error"
    /\ returned = <<>>
    /\ filtered_features # <<>>
    /\ last_call = "export_geojson"
    /\ export_ret = DefaultFilename

\* ------------------------------------------------------- SpecMain: main()
\* A command line string is a sequence of one-character strings.
Chars == {"1", ",", "x"}
Digits == {"1"}
DigitValue(c) == 1

\* str.split(','): the fields between the commas, empty fields included
RECURSIVE SplitFrom(_, _, _)
SplitFrom(chars, i, field) ==
    IF i > Len(chars) THEN <<field>>
    ELSE IF chars[i] = "," THEN <<field>> \o SplitFrom(chars, i + 1, <<>>)
    ELSE SplitFrom(chars, i + 1, Append(field, chars[i]))

Split(chars) == SplitFrom(chars, 1, <<>>)

\* float(field) raises ValueError unless the field is a number
IsFloat(field) == field # <<>> /\ \A i \in DOMAIN field : field[i] \in Digits

RECURSIVE FloatValue(_)
FloatValue(field) ==
    IF field = <<>> THEN 0
    ELSE 10 * FloatValue(SubSeq(field, 1, Len(field) - 1)) + DigitValue(field[Len(field)])

ParseBboxAnyArity(chars) ==
    LET fields == Split(chars)
    IN  IF \A i \in DOMAIN fields : IsFloat(fields[i])
        THEN Some([i \in DOMAIN fields |-> FloatValue(fields[i])])
        ELSE NoneV

\* lines 328-334: the tuple of floats, NoneV when ValueError is raised
ParseBbox(chars) ==
    LET fields == Split(chars)
    IN  IF (\A i \in DOMAIN fields : IsFloat(fields[i])) /\ Len(fields) = BboxArity
        THEN Some([i \in DOMAIN fields |-> FloatValue(fields[i])])
        ELSE NoneV

Lower(answer) == IF answer = "Y" THEN "y" ELSE answer

BboxArgs == {NoneV} \cup {Some(c) : c \in SeqsUpTo(Chars, MaxLen)}
CountryArgs == {NoneV, Some(""), Some("Germany")}
Answers == {"y", "Y", "n", ""}
\* what get_country_bbox returns: None, or (south, west, north, east)
LookupOutcomes == {NoneV, Some(<<47, 5, 55, 15>>)}

Exit(code) == [cli EXCEPT !.pc = "exit", !.exit_code = code]
Goto(label) == [cli EXCEPT !.pc = label]

InitMain ==
    /\ cli \in [pc : {"start"}, country : CountryArgs, bbox : BboxArgs,
                min_area : {0, TriangleArea + 1}, josm : BOOLEAN,
                parsed : {NoneV}, lookup : {"not_called"}, exit_code : {-1}]
    /\ min_area_sqm = 0
    /\ bbox = NoneV
    /\ country = NoneV
    /\ filtered_features = <<>>
    /\ osm = NoQuery
    /\ result = NoQuery
    /\ returned = <<>>
    /\ export_ret = None
    /\ file = NoFile
    /\ last_call = "main"
    /\ utm = Idle
    /\ fb = Idle

\* lines 316-324, up to the prompt
MainCheckFlags ==
    /\ cli.pc = "start"
    /\ cli' = IF TruthyText(cli.country) /\ TruthyChars(cli.bbox) THEN Exit(1)
              ELSE IF ~TruthyText(cli.country) /\ ~TruthyChars(cli.bbox) THEN Goto("confirm")
              ELSE Goto("parse")
    /\ UNCHANGED <<self_vars, io_vars, utm, fb>>

\* lines 322-324
MainConfirm ==
    /\ cli.pc = "confirm"
    /\ \E answer \in Answers :
           cli' = IF Lower(answer) # "y" THEN Exit(0) ELSE Goto("parse")
    /\ UNCHANGED <<self_vars, io_vars, utm, fb>>

\* lines 326-334
MainParseBbox ==
    /\ cli.pc = "parse"
    /\ cli' = IF TruthyChars(cli.bbox)
              THEN IF ParseBbox(cli.bbox.v).some
                   THEN [cli EXCEPT !.pc = "construct", !.parsed = ParseBbox(cli.bbox.v)]
                   ELSE Exit(1)
              ELSE Goto("construct")
    /\ UNCHANGED <<self_vars, io_vars, utm, fb>>

\* lines 336-345 with __init__ (lines 18-26)
MainConstruct ==
    /\ cli.pc = "construct"
    /\ \E found \in LookupOutcomes :
           LET lookup == TruthyText(cli.country) /\ ~TruthyTuple(cli.parsed)
               box == IF lookup THEN found ELSE cli.parsed
           IN  /\ min_area_sqm' = cli.min_area
               /\ bbox' = box
               /\ country' = cli.country
               /\ filtered_features' = <<>>
               /\ cli' = IF ~TruthyTuple(box) /\ TruthyText(cli.country)
                         THEN [Exit(1) EXCEPT !.lookup = "none"]
                         ELSE [cli EXCEPT !.pc = "fetch",
                                          !.lookup = IF lookup THEN "found" ELSE "not_called"]
    /\ UNCHANGED <<io_vars, utm, fb>>

\* lines 347-351
MainFetch ==
    /\ cli.pc = "fetch"
    /\ \E outcome \in Results \cup {QueryError} :
           /\ fetch_and_filter(outcome)
           /\ osm' = outcome
    /\ cli' = IF returned' = <<>> THEN Exit(1) ELSE Goto("export")
    /\ UNCHANGED <<utm, fb>>

\* lines 353-355
MainExport ==
    /\ cli.pc = "export"
    /\ export_geojson(DefaultFilename)
    /\ cli' = IF cli.josm THEN Goto("josm") ELSE Exit(0)
    /\ UNCHANGED <<osm, utm, fb>>

\* line 356 with open_in_josm (lines 285-299): the answer of the editor
\* is only printed
MainJosm ==
    /\ cli.pc = "josm"
    /\ \E ok \in BOOLEAN : last_call' = IF ok THEN "open_in_josm" ELSE "open_in_josm_failed"
    /\ cli' = Exit(0)
    /\ UNCHANGED <<self_vars, osm, result, returned, export_ret, file, utm, fb>>

NextMain ==
    \/ MainCheckFlags
    \/ MainConfirm
    \/ MainParseBbox
    \/ MainConstruct
    \/ MainFetch
    \/ MainExport
    \/ MainJosm

SpecMain == InitMain /\ [][NextMain]_vars

\* C1 as stated: main() exits with 1 exactly when --country and --bbox are
\* both given, or --bbox is given and is not four floats, or --country is
\* given and its lookup found no box, or fetch_and_filter() returned no
\* feature; it exits with 0 otherwise.
C1_ExitCodes ==
    cli.pc = "exit" =>
        /\ cli.exit_code \in {0, 1}
        /\ cli.exit_code = 1 <=>
             \/ cli.country.some /\ cli.bbox.some
             \/ cli.bbox.some /\ ~ParseBbox(cli.bbox.v).some
             \/ cli.country.some /\ cli.lookup = "none"
             \/ last_call = "fetch_and_filter" /\ returned = <<>>

\* -------------------------------------- SpecUtm: zone selection (115-116)
InitUtm ==
    /\ utm \in [pc : {"centroid"}, lon : (-LonOffset)..LonOffset,
                lat : {-90, -1, 0, 1, 90}, utm_zone : {0}, utm_epsg : {0}]
    /\ min_area_sqm = 0
    /\ bbox = NoneV
    /\ country = NoneV
    /\ filtered_features = <<>>
    /\ osm = NoQuery
    /\ result = NoQuery
    /\ returned = <<>>
    /\ export_ret = None
    /\ file = NoFile
    /\ last_call = "calculate_area"
    /\ cli = Idle
    /\ fb = Idle

SelectUtm ==
    /\ utm.pc = "centroid"
    /\ utm' = [utm EXCEPT !.pc = "projected",
                          !.utm_zone = utm_zone_of(utm.lon),
                          !.utm_epsg = utm_epsg_of(utm.lon, utm.lat)]
    /\ UNCHANGED <<self_vars, io_vars, cli, fb>>

NextUtm == SelectUtm

SpecUtm == InitUtm /\ [][NextUtm]_vars

\* C9 as stated: for a centroid longitude in [-180, 180] the zone is
\* floor((lon + 180) / 6) + 1 and lies in 1..60, and the projection code is
\* in 32601..32660 for latitude >= 0 and in 32701..32760 below.
C9_ZoneInRange ==
    utm.pc = "projected" =>
        /\ utm.utm_zone = ((utm.lon + 180) \div 6) + 1
        /\ utm.utm_zone \in 1..60
        /\ utm.lat >= 0 => utm.utm_epsg \in 32601..32660
        /\ utm.lat < 0 => utm.utm_epsg \in 32701..32760

\* ---------------------------- SpecFeature: create_geojson_feature alone
TagKeys == BaseKeys \cup {"name"}
TagMaps == {[k \in S |-> "x"] : S \in SUBSET TagKeys}
FbPoints == {Corners[1], Corners[2]}
FbCoordinates == SeqsUpTo(FbPoints, MaxCoords) \ {<<>>}
FbAreas == {0, TriangleArea, 15000755, 123456785}

FbElement(kind, tags) ==
    IF kind = "way" THEN [id |-> 7, nodes |-> <<>>, tags |-> tags]
    ELSE [id |-> 7, members |-> <<>>, tags |-> tags]

InitFeature ==
    /\ \E kind \in {"way", "relation"}, tags \in TagMaps, c \in FbCoordinates, a \in FbAreas :
           fb = [pc |-> "input", kind |-> kind, element |-> FbElement(kind, tags),
                 given |-> c, coordinates |-> c, area |-> a, builds |-> 0]
    /\ min_area_sqm = 0
    /\ bbox = NoneV
    /\ country = NoneV
    /\ filtered_features = <<>>
    /\ osm = NoQuery
    /\ result = NoQuery
    /\ returned = <<>>
    /\ export_ret = None
    /\ file = NoFile
    /\ last_call = "create_geojson_feature"
    /\ cli = Idle
    /\ utm = Idle

\* One call on the list fb.coordinates.  The list is closed in place and the
\* feature's geometry refers to that same list.
CallBuild ==
    LET feature == create_geojson_feature(fb.element, fb.coordinates, fb.area)
    IN  /\ fb' = [pc |-> "built", kind |-> fb.kind, element |-> fb.element,
                  given |-> fb.given, coordinates |-> feature.geometry.coordinates[1],
                  area |-> fb.area, builds |-> fb.builds + 1, feature |-> feature]
        /\ UNCHANGED <<self_vars, io_vars, cli, utm>>

BuildFeature == fb.pc = "input" /\ CallBuild

BuildFeatureAgain == fb.pc = "built" /\ fb.builds = 1 /\ CallBuild

NextFeature == BuildFeature \/ BuildFeatureAgain

SpecFeature == InitFeature /\ [][NextFeature]_vars

\* C7: the built feature carries the element's id and kind, landuse
\* "industrial" and the two rounded areas whatever the tags are named, and
\* every tag outside the base keys with its own value.
C7_TagsNeverOverrideBase ==
    fb.pc = "built" =>
        LET p == fb.feature.properties
            tags == fb.element.tags
        IN  /\ p["osm_id"] = Num(fb.element.id)
            /\ p["osm_type"] = Str(fb.kind)
            /\ p["landuse"] = Str("industrial")
            /\ p["area_sqm"].s = "" /\ Abs(10 * p["area_sqm"].n - fb.area) <= 5
            /\ p["area_hectares"].s = ""
            /\ Abs(10 * 10000 * p["area_hectares"].n - fb.area) <= 5 * 10000
            /\ \A k \in DOMAIN tags \ BaseKeys : p[k] = Str(tags[k])
            /\ DOMAIN p = BaseKeys \cup DOMAIN tags

C7_Witness ==
    /\ fb.pc = "built"
    /\ BaseKeys \subseteq DOMAIN fb.element.tags
    /\ "name" \in DOMAIN fb.element.tags
    /\ fb.feature.properties["name"] = Str("x")
    /\ fb.feature.properties["osm_id"] = Num(fb.element.id)

EndsMeet(ring) == ring[1] = ring[Len(ring)]

\* C8: the first point is appended exactly when the ends differ, the ring
\* of a built feature is closed, and a second build on the closed ring
\* leaves it as it is.
C8_RingClosingIdempotent ==
    /\ [](fb.pc = "built" =>
            /\ EndsMeet(fb.feature.geometry.coordinates[1])
            /\ fb.coordinates = fb.feature.geometry.coordinates[1])
    /\ [][(fb.pc = "input" /\ fb'.pc = "built") =>
            fb'.coordinates = IF EndsMeet(fb.given) THEN fb.given
                              ELSE fb.given \o <<fb.given[1]>>]_vars
    /\ [][(fb.pc = "built" /\ fb'.pc = "built") => fb'.coordinates = fb.coordinates]_vars

C8_Witness ==
    /\ fb.pc = "built"
    /\ fb.builds = 2
    /\ ~EndsMeet(fb.given)
    /\ Len(fb.coordinates) = Len(fb.given) + 1
====
